---- MODULE Spec2Model ----
(***************************************************************************)
(* A model of penv, the Penumbra environment manager: the installed-release *)
(* cache, the environments, the active-environment link and the two index   *)
(* files, as implemented under src/src/penv and src/src/command.             *)
(*                                                                           *)
(* One process at a time owns the in-memory Penv (single-writer use); the    *)
(* disk (index files, versions/, checkouts/, environments/, the bin link)    *)
(* outlives it.  Every orchestrator method is an operator from a state       *)
(* record to a state record and an outcome, so that a command (load, call,   *)
(* persist) is the composition of the methods it calls.                      *)
(***************************************************************************)
EXTENDS Integers, Sequences, FiniteSets, TLC

\* ------------------------------------------------------------------ bounds
MaxVersion == 2
MaxInstalled == 3
MaxEnvs == 2

\* --------------------------------------------------------------- universes
Versions == 1..MaxVersion
Urls == {"u1", "u2"}
Aliases == {"dev", "dev2"}
AllAliases == Aliases \cup {"ghost"}
TargetOS == {"macos", "linux"}
BinaryNames == {"pcli", "pclientd", "pd"}
DefaultRepository == "penumbra-zone/penumbra"
HomeDir == "home"

\* Option<T>: None is the empty sequence, Some(x) the one-element sequence.
None == <<>>
Some(x) == <<x>>
IsSome(o) == Len(o) = 1
Unwrap(o) == o[1]

\* ----------------------------------------------------- version requirements
\* A semver range over the modelled versions is an interval lo..hi.
ReqLatest == [kind |-> "Latest", lo |-> 0, hi |-> 0, repo |-> ""]
ReqRange(lo, hi) == [kind |-> "VersionReq", lo |-> lo, hi |-> hi, repo |-> ""]
ReqRepo(u) == [kind |-> "Repo", lo |-> 0, hi |-> 0, repo |-> u]
\* The requirement slot of an environment that has none (a checkout).
NoReq == [kind |-> "None", lo |-> 0, hi |-> 0, repo |-> ""]
VersionReqs == {ReqRange(lo, hi) : lo \in Versions, hi \in Versions}
VersionReqOrLatest == {ReqLatest} \cup {r \in VersionReqs : r.lo <= r.hi}
RepoOrVersionReq == VersionReqOrLatest \cup {ReqRepo(u) : u \in Urls}

SpecVersion(v) == [kind |-> "Version", version |-> v, repo |-> ""]
SpecRepo(u) == [kind |-> "Repo", version |-> 0, repo |-> u]
RepoOrVersion == {SpecVersion(v) : v \in Versions} \cup {SpecRepo(u) : u \in Urls}

\* semver::VersionReq::matches
VersionReq_matches(req, v) == req.lo <= v /\ v <= req.hi

VersionReqOrLatest_matches(req, v, latest_version) ==
  IF req.kind = "Latest" THEN v = latest_version ELSE VersionReq_matches(req, v)

RepoOrVersionReq_matches(req, v, latest_version) ==
  IF req.kind = "Repo" THEN FALSE ELSE VersionReqOrLatest_matches(req, v, latest_version)

\* ------------------------------------------------------- installed releases
InstalledBinaryRelease(v, body) ==
  [type |-> "Binary", version |-> v, url |-> "", body |-> body,
   assets |-> <<"pcli", "pd", "pclientd">>]
CheckoutMetadata(u) ==
  [type |-> "GitCheckout", version |-> 0, url |-> u, body |-> None, assets |-> <<>>]

\* InstalledRelease::matches(&RepoOrVersion): exact version, exact URL.
InstalledRelease_matches(r, spec) ==
  IF spec.kind = "Version"
  THEN r.type = "Binary" /\ r.version = spec.version
  ELSE r.type = "GitCheckout" /\ r.url = spec.repo

\* Iterator::find over a vector: the first element that satisfies the
\* predicate, here given as the set of the indices that satisfy it.
find(seq, hits) ==
  IF hits = {} THEN None
  ELSE Some(seq[CHOOSE i \in hits : \A j \in hits : i <= j])

get_installed_release(installed_releases, repo_or_version) ==
  find(installed_releases,
       {i \in DOMAIN installed_releases :
          InstalledRelease_matches(installed_releases[i], repo_or_version)})

\* The outcome of a call: "ok", "err" (an Err result) or "panic" (the process
\* aborts), and the value returned.
Outcome(result, ret) == [result |-> result, ret |-> ret]

\* A retain that keeps every record.
list_installed_retain_all(r, req) == TRUE

\* The closure of retain in Cache::list_installed.
list_installed_retain(r, req) ==
  IF r.type = "Binary" /\ req.kind # "Repo" THEN VersionReq_matches(req, r.version)
  ELSE IF r.type = "GitCheckout" /\ req.kind = "Repo" THEN r.url = req.repo
  ELSE FALSE

list_installed(installed_releases, required_version) ==
  IF required_version = None THEN Outcome("ok", installed_releases)
  ELSE LET req == Unwrap(required_version) IN
    IF req.kind = "Latest"
       /\ \E i \in DOMAIN installed_releases : installed_releases[i].type = "Binary"
    THEN Outcome("panic", <<>>)
    ELSE Outcome("ok", SelectSeq(installed_releases,
                                 LAMBDA r : list_installed_retain(r, req)))

\* Iterator::max_by_key: the last element with the maximum key.
max_by_key(seq) ==
  IF seq = <<>> THEN None
  ELSE LET i == CHOOSE i \in DOMAIN seq :
                  /\ \A j \in DOMAIN seq : seq[j].version <= seq[i].version
                  /\ \A j \in DOMAIN seq : j > i => seq[j].version < seq[i].version
       IN Some(seq[i])

first(seq) == IF seq = <<>> THEN None ELSE Some(seq[1])

find_best_match(installed_releases, required) ==
  LET listed == list_installed(installed_releases, Some(required)) IN
  IF listed.result = "panic" THEN Outcome("panic", None)
  ELSE IF required.kind = "Repo" THEN Outcome("ok", first(listed.ret))
  ELSE Outcome("ok", max_by_key(listed.ret))

\* ------------------------------------------------------------ environments
BinaryEnvironment(alias, client_only, generate_network, req, pinned) ==
  [type |-> "BinaryEnvironment", alias |-> alias, client_only |-> client_only,
   generate_network |-> generate_network, version_requirement |-> req,
   pinned_version |-> pinned, git_checkout |-> ""]
CheckoutEnvironment(alias, client_only, generate_network, url) ==
  [type |-> "CheckoutEnvironment", alias |-> alias, client_only |-> client_only,
   generate_network |-> generate_network, version_requirement |-> NoReq,
   pinned_version |-> 0, git_checkout |-> url]

BinaryEnvironment_satisfied_by_version(env, version) ==
  IF env.version_requirement.kind = "VersionReq" /\ version.kind = "Version"
  THEN Outcome("ok", VersionReq_matches(env.version_requirement, version.version))
  ELSE IF env.version_requirement.kind = "Latest" /\ version.kind = "Version"
  THEN Outcome("panic", FALSE)
  ELSE Outcome("ok", FALSE)

CheckoutEnvironment_satisfied_by_version(env, version) ==
  IF version.kind = "Version" THEN Outcome("ok", FALSE)
  ELSE Outcome("ok", version.repo = env.git_checkout)

\* Environment::satisfied_by_version, the dispatch over the two variants.
satisfied_by_version(env, version) ==
  IF env.type = "CheckoutEnvironment" THEN Outcome("ok", FALSE)
  ELSE BinaryEnvironment_satisfied_by_version(env, version)

\* ------------------------------------------------------------------- state
VARIABLES
  target_os,            \* the platform the binary was built for
  proc,                 \* "running": a Penv is in memory; "dead": none is
  installed_releases,   \* Penv.cache.data.installed_releases
  environments,         \* Penv.environments
  active_environment,   \* Penv.active_environment: Option<Arc<Environment>>
  penv_toml,            \* <home>/penv.toml: None or Some(table)
  cache_toml,           \* <home>/cache.toml: None or Some(list)
  versions_dir,         \* the versions whose tree <home>/versions/<v> exists
  checkouts_dir,        \* the URLs whose tree <home>/checkouts/<sha256(url)> exists
  env_disk,             \* <home>/environments/<alias>: the tree and its bin entries
  home_bin,             \* <home>/bin: None or Some(alias), a link to that env's bin
  last,                 \* the last call: operation, argument, result, value
  dl                    \* the download_release call in flight and its tasks

vars == <<target_os, proc, installed_releases, environments, active_environment,
          penv_toml, cache_toml, versions_dir, checkouts_dir, env_disk, home_bin,
          last, dl>>

\* The state the methods transform: the Penv in memory and the disk.
State ==
  [installed_releases |-> installed_releases, environments |-> environments,
   active_environment |-> active_environment,
   penv_toml |-> penv_toml, cache_toml |-> cache_toml,
   versions_dir |-> versions_dir, checkouts_dir |-> checkouts_dir,
   env_disk |-> env_disk, home_bin |-> home_bin]

\* A bin entry of an environment: 0 absent, Wrapper a wrapper script, v > 0
\* a symlink to <home>/versions/<v>/bin/<name>.
Wrapper == -1
NoEnvDir == [exists |-> FALSE, bin |-> [b \in BinaryNames |-> 0]]
EmptyEnvDir == [exists |-> TRUE, bin |-> [b \in BinaryNames |-> 0]]

\* What a call leaves: the state, "ok" / "err" / "panic", the value returned.
Ret(s, result, ret) == [s |-> s, result |-> result, ret |-> ret]

\* ------------------------------------------------------------ persistence
\* impl Serialize for Penv: the active environment is written as its alias;
\* a None value has no TOML form and its key is left out (None here).
Serialize(s) ==
  [repository_name |-> DefaultRepository, home_dir |-> HomeDir,
   active_environment |->
     IF IsSome(s.active_environment)
     THEN Some(Unwrap(s.active_environment).alias) ELSE None,
   cache |-> s.installed_releases,
   environments |-> s.environments]

\* impl Deserialize for InstalledBinaryRelease: every key is required, also
\* `body`, which the serializer leaves out when the release has no notes.
InstalledReleases_deserializable(list) ==
  \A i \in DOMAIN list : list[i].type = "Binary" => IsSome(list[i].body)

Environments_get(envs, alias) ==
  find(envs, {i \in DOMAIN envs : envs[i].alias = alias})

\* impl Deserialize for Penv: the active reference is looked up by alias in
\* the deserialized list.
Deserialize(toml) ==
  IF ~InstalledReleases_deserializable(toml.cache) THEN Outcome("err", None)
  ELSE Outcome("ok", Some(
    [repository_name |-> toml.repository_name, home_dir |-> toml.home_dir,
     installed_releases |-> toml.cache,
     environments |-> toml.environments,
     active_environment |->
       IF IsSome(toml.active_environment)
       THEN Environments_get(toml.environments, Unwrap(toml.active_environment))
       ELSE None]))

Cache_persist(s) == [s EXCEPT !.cache_toml = Some(s.installed_releases)]

persist(s) == Cache_persist([s EXCEPT !.penv_toml = Some(Serialize(s))])

\* Cache::new: the list of cache.toml, empty when the file is missing.
Cache_new(s) ==
  IF s.cache_toml = None THEN Outcome("ok", <<>>)
  ELSE IF ~InstalledReleases_deserializable(Unwrap(s.cache_toml)) THEN Outcome("err", <<>>)
  ELSE Outcome("ok", Unwrap(s.cache_toml))

\* Penv::new: a fresh Penv when penv.toml is missing, its content otherwise.
Penv_new(s) ==
  IF s.penv_toml = None
  THEN LET c == Cache_new(s) IN
       IF c.result = "err" THEN Ret(s, "err", None)
       ELSE Ret([s EXCEPT !.installed_releases = c.ret, !.environments = <<>>,
                          !.active_environment = None], "ok", None)
  ELSE LET d == Deserialize(Unwrap(s.penv_toml)) IN
       IF d.result = "err" THEN Ret(s, "err", None)
       ELSE Ret([s EXCEPT !.installed_releases = Unwrap(d.ret).installed_releases,
                          !.environments = Unwrap(d.ret).environments,
                          !.active_environment = Unwrap(d.ret).active_environment],
                "ok", None)

\* ----------------------------------------------------------------- symlinks
\* How fs::metadata, which follows links, sees a path that may be a link.
HomeBinLink(s) ==
  IF s.home_bin = None THEN "absent"
  ELSE IF s.env_disk[Unwrap(s.home_bin)].exists THEN "resolves" ELSE "dangling"

BinEntryLink(s, entry) ==
  IF entry = 0 THEN "absent"
  ELSE IF entry = Wrapper \/ entry \in s.versions_dir THEN "resolves" ELSE "dangling"

\* create_symlink(target, link): nothing is done when the link path already
\* resolves; the link is made only in a build for macOS (the cfg names
\* target_os "macos" or "unix", and no target has the latter), where making it
\* over a dangling link fails.
create_symlink(target_exists, link, os) ==
  IF ~target_exists THEN [result |-> "err", created |-> FALSE]
  ELSE IF link = "resolves" THEN [result |-> "ok", created |-> FALSE]
  ELSE IF os = "macos"
       THEN IF link = "absent" THEN [result |-> "ok", created |-> TRUE]
            ELSE [result |-> "err", created |-> FALSE]
  ELSE [result |-> "ok", created |-> FALSE]

\* Cache::get_pcli_for_version and its two siblings: the asset of the release
\* installed for the version whose file name is the binary's.
get_binary_for_version(installed, version, name) ==
  LET release == get_installed_release(installed, SpecVersion(version)) IN
  IF release = None THEN None
  ELSE IF \E i \in DOMAIN Unwrap(release).assets : Unwrap(release).assets[i] = name
       THEN Some(name) ELSE None

\* The binaries an environment wires, in the order the code takes them.
ManagedBinaries(env) ==
  IF env.client_only THEN <<"pcli", "pclientd">> ELSE <<"pcli", "pclientd", "pd">>

RECURSIVE create_symlinks_from(_, _, _, _)
\* BinaryEnvironment::create_symlinks from the i-th binary on; stops at the
\* first failure.
create_symlinks_from(s, env, i, os) ==
  LET names == ManagedBinaries(env) IN
  IF i > Len(names) THEN Ret(s, "ok", None)
  ELSE LET name == names[i]
           entry == s.env_disk[env.alias].bin[name]
           target == get_binary_for_version(s.installed_releases, env.pinned_version, name)
       IN IF target = None THEN Ret(s, "err", None)
          ELSE LET made == create_symlink(env.pinned_version \in s.versions_dir,
                                          IF s.env_disk[env.alias].exists
                                          THEN BinEntryLink(s, entry) ELSE "absent",
                                          os)
               IN IF made.result = "err" THEN Ret(s, "err", None)
                  ELSE IF made.created /\ ~s.env_disk[env.alias].exists
                       THEN Ret(s, "err", None)
                  ELSE create_symlinks_from(
                         IF made.created
                         THEN [s EXCEPT !.env_disk[env.alias].bin[name] = env.pinned_version]
                         ELSE s,
                         env, i + 1, os)

create_symlinks(s, env, os) ==
  IF env.type = "CheckoutEnvironment" THEN Ret(s, "ok", None)
  ELSE create_symlinks_from(s, env, 1, os)

RECURSIVE remove_symlinks_from(_, _, _)
\* BinaryEnvironment::remove_symlinks: fs::remove_file on each link; a
\* missing file is an error and ends the call.
remove_symlinks_from(s, env, i) ==
  LET names == ManagedBinaries(env) IN
  IF i > Len(names) THEN Ret(s, "ok", None)
  ELSE IF ~s.env_disk[env.alias].exists \/ s.env_disk[env.alias].bin[names[i]] = 0
       THEN Ret(s, "err", None)
  ELSE remove_symlinks_from([s EXCEPT !.env_disk[env.alias].bin[names[i]] = 0], env, i + 1)

remove_symlinks(s, env) ==
  IF env.type = "CheckoutEnvironment" THEN Ret(s, "ok", None)
  ELSE remove_symlinks_from(s, env, 1)

\* ------------------------------------------------------ activate, deactivate
\* Penv::deactivate: the link is removed when its path resolves (to a file or
\* a directory); a path that does not resolve is taken not to exist.
deactivate(s) ==
  LET s1 == [s EXCEPT !.active_environment = None]
      s2 == IF HomeBinLink(s1) = "resolves" THEN [s1 EXCEPT !.home_bin = None] ELSE s1
  IN Ret(persist(s2), "ok", None)

\* Penv::activate: sets the active reference, then links <home>/bin to the
\* environment's bin directory with create_symlink; does not persist.
activate(s, environment_alias, os) ==
  LET environment == Environments_get(s.environments, environment_alias) IN
  IF environment = None THEN Ret(s, "err", None)
  ELSE LET s1 == [s EXCEPT !.active_environment = environment]
           made == create_symlink(
                     environment_alias \in Aliases /\ s1.env_disk[environment_alias].exists,
                     HomeBinLink(s1), os)
       IN IF made.result = "err" THEN Ret(s1, "err", None)
          ELSE Ret(IF made.created THEN [s1 EXCEPT !.home_bin = Some(environment_alias)]
                   ELSE s1,
                   "ok", environment)

\* Vec::retain(|e| e.metadata().alias != alias)
retain_alias_ne(envs, alias) == SelectSeq(envs, LAMBDA e : e.alias # alias)

\* A delete that does not look at the active environment.
delete_environment_unguarded(s, environment_alias) ==
  LET environment == Environments_get(s.environments, environment_alias) IN
  IF environment = None THEN Ret(s, "err", None)
  ELSE LET s1 == [s EXCEPT !.env_disk[environment_alias] = NoEnvDir]
           s2 == [s1 EXCEPT !.environments = retain_alias_ne(s.environments, environment_alias)]
       IN Ret(persist(s2), "ok", None)

\* Penv::delete_environment
delete_environment(s, environment_alias) ==
  LET environment == Environments_get(s.environments, environment_alias) IN
  IF environment = None THEN Ret(s, "err", None)
  ELSE IF s.active_environment = environment THEN Ret(s, "err", None)
  ELSE LET s1 == [s EXCEPT !.env_disk[environment_alias] = NoEnvDir]
           s2 == [s1 EXCEPT !.environments = retain_alias_ne(s.environments, environment_alias)]
       IN Ret(persist(s2), "ok", None)

\* A replacement that leaves the active reference on the old data.
replace_version_stale(s, environment_alias, new_version, os) ==
  LET found == Environments_get(s.environments, environment_alias) IN
  IF found = None THEN Ret(s, "err", None)
  ELSE IF Unwrap(found).type = "CheckoutEnvironment" THEN Ret(s, "err", None)
  ELSE LET e == [Unwrap(found) EXCEPT !.pinned_version = new_version]
           s1 == [s EXCEPT !.environments = retain_alias_ne(s.environments, environment_alias)]
           s3 == persist([s1 EXCEPT !.environments = Append(s1.environments, e)])
           removed == remove_symlinks(s3, e)
       IN IF removed.result = "err" THEN Ret(removed.s, "err", None)
          ELSE LET made == create_symlinks(removed.s, e, os)
               IN Ret(made.s, made.result, None)

\* Penv::replace_version: the environment, with the new pinned version, goes
\* to the end of the list; the index files are written before the symlinks
\* are removed and made again.
replace_version(s, environment_alias, new_version, os) ==
  LET found == Environments_get(s.environments, environment_alias) IN
  IF found = None THEN Ret(s, "err", None)
  ELSE IF Unwrap(found).type = "CheckoutEnvironment" THEN Ret(s, "err", None)
  ELSE LET e == [Unwrap(found) EXCEPT !.pinned_version = new_version]
           s1 == [s EXCEPT !.environments = retain_alias_ne(s.environments, environment_alias)]
           s2 == IF IsSome(s1.active_environment)
                    /\ Unwrap(s1.active_environment).alias = environment_alias
                 THEN [s1 EXCEPT !.active_environment = Some(e)] ELSE s1
           s3 == persist([s2 EXCEPT !.environments = Append(s2.environments, e)])
           removed == remove_symlinks(s3, e)
       IN IF removed.result = "err" THEN Ret(removed.s, "err", None)
          ELSE LET made == create_symlinks(removed.s, e, os)
               IN Ret(made.s, made.result, None)

\* -------------------------------------------------------------- initialize
\* The subprocess step that exits non-zero in a run of initialize, if any.
FailAt == {"none", "pcli", "pclientd", "address", "pd"}

\* A managed binary of the environment can be spawned when its bin entry
\* resolves to a file.
Spawnable(s, env, name) ==
  s.env_disk[env.alias].exists /\ BinEntryLink(s, s.env_disk[env.alias].bin[name]) = "resolves"

\* PdBinary::initialize: `allocation_address` is read with expect() in both
\* modes, before the subprocess is spawned.
PdBinary_initialize(s, env, has_allocation_address, fail_at) ==
  IF ~has_allocation_address THEN "panic"
  ELSE IF ~Spawnable(s, env, "pd") \/ fail_at = "pd" THEN "err"
  ELSE "ok"

\* The seed phrase pcli generates, and the ones a caller can import.
GeneratedPhrase == "phrase-generated"
ImportPhrases == {None, Some("phrase-imported")}

\* A subprocess: the binary, its argument list, what is written to its stdin.
Spawn(bin, args, stdin) == [bin |-> bin, args |-> args, stdin |-> stdin]

\* What a run of initialize did: the steps it began, the subprocesses it
\* spawned.
Run(steps, spawns) == [steps |-> steps, spawns |-> spawns]

\* An argument list of pcli init that carries the imported phrase.
PcliBinary_args_inline(import_seed_phrase) ==
  <<"--home", "pcli", "init", "--grpc-url", "grpc_url", "soft-kms">>
    \o (IF IsSome(import_seed_phrase)
        THEN <<"import-phrase", Unwrap(import_seed_phrase)>> ELSE <<"generate">>)

\* PcliBinary::initialize, the argument list.
PcliBinary_args(import_seed_phrase) ==
  <<"--home", "pcli", "init", "--grpc-url", "grpc_url", "soft-kms",
    IF IsSome(import_seed_phrase) THEN "import-phrase" ELSE "generate">>

\* PcliBinary::initialize, the subprocess: the imported phrase and a newline
\* are written to its stdin; a generated phrase is read from its stdout.
PcliBinary_spawn(import_seed_phrase) ==
  Spawn("pcli", PcliBinary_args(import_seed_phrase), import_seed_phrase)

\* The phrase PcliBinary::initialize returns.
PcliBinary_seed_phrase(import_seed_phrase) ==
  IF IsSome(import_seed_phrase) THEN Unwrap(import_seed_phrase) ELSE GeneratedPhrase

\* PclientdBinary::initialize, the subprocess: the phrase goes to its stdin.
PclientdBinary_spawn(seed_phrase) ==
  Spawn("pclientd", <<"--home", "pclientd", "init", "--grpc-url", "grpc_url">>,
        Some(seed_phrase))

\* PcliBinary::get_address(0), the subprocess.
PcliBinary_get_address_spawn ==
  Spawn("pcli", <<"--home", "pcli", "view", "address", "0">>, None)

\* PdBinary::initialize, the subprocess, in generate mode and in join mode.
PdBinary_spawn(env) ==
  Spawn("pd",
        IF env.generate_network
        THEN <<"network", "--network-dir", "network_data", "generate",
               "--external-addresses", "0.0.0.0:26656",
               "--allocation-address", "address-0">>
        ELSE <<"network", "--network-dir", "network_data", "join",
               "--moniker", env.alias, "--external-address", "0.0.0.0:26656",
               "pd_join_url", "--allocation-address", "address-0">>,
        None)

\* The subprocess steps common to both variants: pcli init, pclientd init
\* with the seed phrase, then for a node the address query (checkout,
\* generate mode only) and pd's network init.  The value is the result and
\* the run.
init_binaries_run(s, env, import_seed_phrase, fail_at) ==
  LET pcli == PcliBinary_spawn(import_seed_phrase)
      pclientd == PclientdBinary_spawn(PcliBinary_seed_phrase(import_seed_phrase))
      has_allocation_address == env.type = "CheckoutEnvironment" /\ env.generate_network
      pd == PdBinary_initialize(s, env, has_allocation_address, fail_at)
      queried == IF has_allocation_address
                 THEN <<pcli, pclientd, PcliBinary_get_address_spawn>>
                 ELSE <<pcli, pclientd>>
  IN IF ~Spawnable(s, env, "pcli")
     THEN [result |-> "err", run |-> Run(<<"pcli">>, <<>>)]
     ELSE IF fail_at = "pcli"
     THEN [result |-> "err", run |-> Run(<<"pcli">>, <<pcli>>)]
     ELSE IF ~Spawnable(s, env, "pclientd")
     THEN [result |-> "err", run |-> Run(<<"pcli", "pclientd">>, <<pcli>>)]
     ELSE IF fail_at = "pclientd"
     THEN [result |-> "err", run |-> Run(<<"pcli", "pclientd">>, <<pcli, pclientd>>)]
     ELSE IF env.client_only
     THEN [result |-> "ok", run |-> Run(<<"pcli", "pclientd">>, <<pcli, pclientd>>)]
     ELSE IF has_allocation_address /\ fail_at = "address"
     THEN [result |-> "err", run |-> Run(<<"pcli", "pclientd", "pd">>, queried)]
     ELSE [result |-> pd,
           run |-> Run(<<"pcli", "pclientd", "pd">>,
                       IF has_allocation_address /\ Spawnable(s, env, "pd")
                       THEN Append(queried, PdBinary_spawn(env)) ELSE queried)]

init_binaries(s, env, fail_at) == init_binaries_run(s, env, None, fail_at).result

\* The run of the directory and wiring steps followed by that of the
\* subprocess steps.
after_wiring(s, binaries) ==
  Ret(s, binaries.result,
      Run(<<"dirs", "wire">> \o binaries.run.steps, binaries.run.spawns))

\* BinaryEnvironment::initialize
BinaryEnvironment_initialize(s, env, fail_at, os) ==
  LET s1 == [s EXCEPT !.env_disk[env.alias].exists = TRUE]
      linked == create_symlinks(s1, env, os)
  IN IF linked.result = "err" THEN Ret(linked.s, "err", Run(<<"dirs", "wire">>, <<>>))
     ELSE after_wiring(linked.s, init_binaries_run(linked.s, env, None, fail_at))

\* File::create of a wrapper script: a new file, or the file already there.
write_wrapper(s, alias, name) ==
  IF s.env_disk[alias].bin[name] = 0 THEN [s EXCEPT !.env_disk[alias].bin[name] = Wrapper]
  ELSE s

\* CheckoutEnvironment::initialize_with_seed_phrase
CheckoutEnvironment_initialize_with_seed_phrase(s, env, import_seed_phrase, fail_at) ==
  LET s1 == [s EXCEPT !.env_disk[env.alias].exists = TRUE]
      names == ManagedBinaries(env)
      dangling == \E i \in DOMAIN names :
                    BinEntryLink(s1, s1.env_disk[env.alias].bin[names[i]]) = "dangling"
      s2 == write_wrapper(write_wrapper(s1, env.alias, "pcli"), env.alias, "pclientd")
      s3 == IF env.client_only THEN s2 ELSE write_wrapper(s2, env.alias, "pd")
  IN IF env.git_checkout \notin s.checkouts_dir
     THEN Ret(s1, "err", Run(<<"dirs", "wire">>, <<>>))
     ELSE IF dangling THEN Ret(s1, "err", Run(<<"dirs", "wire">>, <<>>))
     ELSE after_wiring(s3, init_binaries_run(s3, env, import_seed_phrase, fail_at))

\* CheckoutEnvironment::initialize
CheckoutEnvironment_initialize(s, env, fail_at) ==
  CheckoutEnvironment_initialize_with_seed_phrase(s, env, None, fail_at)

initialize(s, env, fail_at, os) ==
  IF env.type = "CheckoutEnvironment" THEN CheckoutEnvironment_initialize(s, env, fail_at)
  ELSE BinaryEnvironment_initialize(s, env, fail_at, os)

\* An alias lookup that finds nothing.
any_alias_none(envs, alias) == FALSE

\* environments.iter().any(|e| e.metadata().alias == environment_alias)
any_alias(envs, alias) == \E i \in DOMAIN envs : envs[i].alias = alias

\* A creation that registers and persists the environment whatever
\* initialize returns.
create_environment_eager(s, environment_alias, penumbra_version, client_only, generate_network, fail_at, os) ==
  IF any_alias(s.environments, environment_alias)
  THEN Ret(s, "err", None)
  ELSE LET best == find_best_match(s.installed_releases, penumbra_version) IN
    IF best.result = "panic" THEN Ret(s, "panic", None)
    ELSE IF best.ret = None THEN Ret(s, "err", None)
    ELSE LET release == Unwrap(best.ret)
             environment ==
               IF release.type = "GitCheckout"
               THEN CheckoutEnvironment(environment_alias, client_only,
                                        generate_network, release.url)
               ELSE BinaryEnvironment(environment_alias, client_only, generate_network,
                                      penumbra_version, release.version)
             init == initialize(s, environment, fail_at, os)
         IN Ret(persist([init.s EXCEPT
                           !.environments = Append(init.s.environments, environment)]),
                init.result, Some(environment))

\* Penv::create_environment
create_environment(s, environment_alias, penumbra_version, client_only, generate_network, fail_at, os) ==
  IF any_alias(s.environments, environment_alias)
  THEN Ret(s, "err", None)
  ELSE LET best == find_best_match(s.installed_releases, penumbra_version) IN
    IF best.result = "panic" THEN Ret(s, "panic", None)
    ELSE IF best.ret = None THEN Ret(s, "err", None)
    ELSE LET release == Unwrap(best.ret)
             environment ==
               IF release.type = "GitCheckout"
               THEN CheckoutEnvironment(environment_alias, client_only,
                                        generate_network, release.url)
               ELSE BinaryEnvironment(environment_alias, client_only, generate_network,
                                      penumbra_version, release.version)
             init == initialize(s, environment, fail_at, os)
         IN IF init.result # "ok" THEN Ret(init.s, init.result, None)
            ELSE Ret(persist([init.s EXCEPT
                                !.environments = Append(init.s.environments, environment)]),
                     "ok", Some(environment))

\* ------------------------------------------------------------------- cache
\* An install that copies the files and records nothing.
Cache_install_release_unrecorded(s, installable, install_ok) ==
  IF ~install_ok THEN Ret(s, "err", None)
  ELSE IF installable.type = "GitRepo"
  THEN Ret([s EXCEPT !.checkouts_dir = @ \cup {installable.url}], "ok", None)
  ELSE Ret([s EXCEPT !.versions_dir = @ \cup {installable.version}], "ok", None)

\* An install that refuses a destination that is already there.
Cache_install_release_exclusive(s, installable, install_ok) ==
  IF ~install_ok THEN Ret(s, "err", None)
  ELSE IF installable.type = "GitRepo"
  THEN IF installable.url \in s.checkouts_dir THEN Ret(s, "err", None)
       ELSE Ret([s EXCEPT !.checkouts_dir = @ \cup {installable.url},
                          !.installed_releases = Append(@, CheckoutMetadata(installable.url))],
                "ok", None)
  ELSE IF installable.version \in s.versions_dir THEN Ret(s, "err", None)
  ELSE Ret([s EXCEPT !.versions_dir = @ \cup {installable.version},
                     !.installed_releases =
                        Append(@, InstalledBinaryRelease(installable.version,
                                                         installable.body))],
           "ok", None)

\* Cache::install_release: the release is materialised under its destination
\* and its record is pushed; nothing is persisted.
Cache_install_release(s, installable, install_ok) ==
  IF ~install_ok THEN Ret(s, "err", None)
  ELSE IF installable.type = "GitRepo"
  THEN Ret([s EXCEPT !.checkouts_dir = @ \cup {installable.url},
                     !.installed_releases = Append(@, CheckoutMetadata(installable.url))],
           "ok", None)
  ELSE Ret([s EXCEPT !.versions_dir = @ \cup {installable.version},
                     !.installed_releases =
                        Append(@, InstalledBinaryRelease(installable.version,
                                                         installable.body))],
           "ok", None)

\* Cache::delete: the record is dropped from the list, then the release is
\* uninstalled (its tree removed when it exists).
Cache_delete(s, installed_release, io_ok) ==
  LET s1 == [s EXCEPT !.installed_releases =
                         SelectSeq(@, LAMBDA r : r # installed_release)]
      tree_exists == IF installed_release.type = "Binary"
                     THEN installed_release.version \in s.versions_dir
                     ELSE installed_release.url \in s.checkouts_dir
  IN IF ~tree_exists THEN Ret(s1, "ok", None)
     ELSE IF ~io_ok THEN Ret(s1, "err", None)
     ELSE IF installed_release.type = "Binary"
     THEN Ret([s1 EXCEPT !.versions_dir = @ \ {installed_release.version}], "ok", None)
     ELSE Ret([s1 EXCEPT !.checkouts_dir = @ \ {installed_release.url}], "ok", None)

\* ---------------------------------------------------------- install_release
\* A release of the remote index, as fetch_releases returns it.
\* archs: the platforms the release has assets for.
Release(v, body, archs) == [version |-> v, body |-> body, archs |-> archs]
\* Triple::host(), the platform of the running build, and another platform.
Triple_host == "host"
Platforms == {Triple_host, "other"}
\* The remote repository: its first release may have been published without
\* notes, its newest one without an asset for the host platform.
BodiesOf(v) == IF v = 1 THEN {None, Some("notes")} ELSE {Some("notes")}
ArchOf(v) == IF v = MaxVersion THEN {Platforms, Platforms \ {Triple_host}} ELSE {Platforms}
Releases ==
  UNION {{Release(v, b, a) : b \in BodiesOf(v), a \in ArchOf(v)} : v \in Versions}
\* The remote indexes: at most one release per version.
RemoteIndexes ==
  {idx \in SUBSET Releases : \A x \in idx, y \in idx : x.version = y.version => x = y}

\* What fetch_releases can return: an error, or an index.
Fetches == {Outcome("err", {})} \cup {Outcome("ok", idx) : idx \in RemoteIndexes}
\* (download_ok, install_ok): the download fails, the copy fails, both work.
InstallIO == {<<FALSE, TRUE>>, <<TRUE, FALSE>>, <<TRUE, TRUE>>}

MaxVersionOf(S) == CHOOSE v \in S : \A w \in S : w <= v

\* A lookup that finds no installed release.
any_installed_none(installed, version) == FALSE

\* installed_releases.iter().any(..): a Binary record of that version is there.
any_installed(installed, version) ==
  \E i \in DOMAIN installed :
    /\ installed[i].type = "Binary"
    /\ installed[i].version = version

\* Steps 1 to 4 of install_release for a version requirement: the fetched
\* releases that match the requirement and have an asset whose target_arch is
\* Triple::host() (has_arch_asset), and of these the one of the greatest
\* version; None when the fetch fails or nothing is left.
selected_release(penumbra_version, fetched) ==
  IF fetched.result = "err" \/ fetched.ret = {} THEN None
  ELSE LET releases == fetched.ret
           latest_version == MaxVersionOf({r.version : r \in releases})
           candidate_releases ==
             {r \in releases :
                /\ VersionReqOrLatest_matches(penumbra_version, r.version, latest_version)
                /\ Triple_host \in r.archs}
       IN IF candidate_releases = {} THEN None
          ELSE Some(CHOOSE r \in candidate_releases :
                      \A q \in candidate_releases : q.version <= r.version)

\* Penv::install_release.  target_arch: the platform asked for; fetched: the
\* outcome of fetch_releases; download_ok, install_ok: whether the download
\* and the copy or clone work.  download_release takes the archives whose URL
\* names target_arch: a selected release without one is staged with no
\* binaries, and its install panics on `expect("expected pcli file")`.
install_release_target(s, penumbra_version, target_arch, fetched, download_ok, install_ok) ==
  IF penumbra_version.kind = "Repo"
  THEN IF get_installed_release(s.installed_releases, SpecRepo(penumbra_version.repo)) # None
       THEN Ret(s, "err", None)
       ELSE LET done == Cache_install_release(
                          s, [type |-> "GitRepo", url |-> penumbra_version.repo,
                              version |-> 0, body |-> None], install_ok)
            IN IF done.result = "err" THEN Ret(done.s, "err", None)
               ELSE Ret(persist(done.s), "ok", None)
  ELSE LET selected == selected_release(penumbra_version, fetched)
       IN IF selected = None THEN Ret(s, "err", None)
          ELSE LET latest_release == Unwrap(selected)
               IN IF any_installed(s.installed_releases, latest_release.version)
                  THEN Ret(s, "ok", None)
                  ELSE IF ~download_ok THEN Ret(s, "err", None)
                  ELSE IF target_arch \notin latest_release.archs
                  THEN Ret(s, "panic", None)
                  ELSE LET done == Cache_install_release(
                                     s, [type |-> "Binary", url |-> "",
                                         version |-> latest_release.version,
                                         body |-> latest_release.body], install_ok)
                       IN IF done.result = "err" THEN Ret(done.s, "err", None)
                          ELSE Ret(persist(done.s), "ok", None)

\* Penv::install_release asked for the platform of the running build.
install_release(s, penumbra_version, fetched, download_ok, install_ok) ==
  install_release_target(s, penumbra_version, Triple_host, fetched, download_ok, install_ok)

\* Penv::install_release for a version requirement, up to the return of
\* Cache::install_release: what is on disk when the process is ended there,
\* before persist.  None when the call does not get that far.
install_release_copied(s, penumbra_version, fetched) ==
  LET selected == selected_release(penumbra_version, fetched) IN
  IF penumbra_version.kind = "Repo" \/ selected = None THEN None
  ELSE IF any_installed(s.installed_releases, Unwrap(selected).version) THEN None
  ELSE Some(Cache_install_release(
              s, [type |-> "Binary", url |-> "", version |-> Unwrap(selected).version,
                  body |-> Unwrap(selected).body], TRUE).s)

\* ---------------------------------------------------------------- commands
RECURSIVE find_satisfied(_, _, _)
\* environments.iter().find(|e| e.satisfied_by_version(version)), from the
\* i-th environment on: the first one satisfied, or a panic met before it.
find_satisfied(envs, version, i) ==
  IF i > Len(envs) THEN Outcome("ok", None)
  ELSE LET sat == satisfied_by_version(envs[i], version) IN
       IF sat.result = "panic" THEN Outcome("panic", None)
       ELSE IF sat.ret THEN Outcome("ok", Some(envs[i]))
       ELSE find_satisfied(envs, version, i + 1)

\* CacheCmd::exec, Delete: load, refuse when an environment is satisfied by
\* the version, delete from the cache, write cache.toml only.
CacheCmd_Delete(s, version, io_ok) ==
  LET loaded == Penv_new(s) IN
  IF loaded.result = "err" THEN Ret(s, "err", None)
  ELSE LET penv == loaded.s
           pinning == find_satisfied(penv.environments, version, 1)
       IN IF pinning.result = "panic" THEN Ret(penv, "panic", None)
          ELSE IF pinning.ret # None THEN Ret(penv, "conflict", None)
          ELSE LET installed_version ==
                     get_installed_release(penv.installed_releases, version)
               IN IF installed_version = None THEN Ret(penv, "err", None)
                  ELSE LET deleted == Cache_delete(penv, Unwrap(installed_version), io_ok)
                       IN IF deleted.result = "err" THEN Ret(deleted.s, "err", None)
                          ELSE Ret(Cache_persist(deleted.s), "ok", None)

\* CacheCmd::exec, Reset: cache.toml is removed, the cache made from the
\* missing file is empty, and it is written; penv.toml and the trees of the
\* installed releases are not touched.
CacheCmd_Reset(s) == Ret([s EXCEPT !.cache_toml = Some(<<>>)], "ok", None)

\* UseCmd::exec: load, deactivate, activate, persist.
UseCmd(s, environment_alias, os) ==
  LET loaded == Penv_new(s) IN
  IF loaded.result = "err" THEN Ret(s, "err", None)
  ELSE LET off == deactivate(loaded.s)
           on == activate(off.s, environment_alias, os)
       IN IF on.result = "err" THEN Ret(on.s, "err", None)
          ELSE Ret(persist(on.s), "ok", None)

\* ManageCmd::exec, Upgrade: load, look the environment up (a checkout
\* environment is a panic!), take the best installed match of its
\* requirement, and replace the pinned version when it differs.
UpgradeCmd(s, environment_alias, os) ==
  LET loaded == Penv_new(s) IN
  IF loaded.result = "err" THEN Ret(s, "err", None)
  ELSE LET penv == loaded.s
           environment == Environments_get(penv.environments, environment_alias)
       IN IF environment = None THEN Ret(penv, "err", None)
          ELSE IF Unwrap(environment).type = "CheckoutEnvironment"
          THEN Ret(penv, "panic", None)
          ELSE LET best == find_best_match(penv.installed_releases,
                                           Unwrap(environment).version_requirement)
               IN IF best.result = "panic" THEN Ret(penv, "panic", None)
                  ELSE IF best.ret = None THEN Ret(penv, "err", None)
                  ELSE IF Unwrap(best.ret).type = "GitCheckout" THEN Ret(penv, "panic", None)
                  ELSE IF Unwrap(best.ret).version = Unwrap(environment).pinned_version
                  THEN Ret(penv, "ok", None)
                  ELSE LET replaced == replace_version(penv, environment_alias,
                                                       Unwrap(best.ret).version, os)
                       IN IF replaced.result = "err" THEN Ret(replaced.s, "err", None)
                          ELSE Ret(persist(replaced.s), "ok", None)

\* ------------------------------------------------------------------ actions
\* The inputs of create_environment: (client_only, generate_network).
Modes == {<<TRUE, FALSE>>, <<FALSE, FALSE>>, <<FALSE, TRUE>>}

Call(op, arg, result, ret) == [op |-> op, arg |-> arg, result |-> result, ret |-> ret]

\* The state a call leaves, and the record of the call.
CommitState(r, op, arg) ==
  /\ installed_releases' = r.s.installed_releases
  /\ environments' = r.s.environments
  /\ active_environment' = r.s.active_environment
  /\ penv_toml' = r.s.penv_toml
  /\ cache_toml' = r.s.cache_toml
  /\ versions_dir' = r.s.versions_dir
  /\ checkouts_dir' = r.s.checkouts_dir
  /\ env_disk' = r.s.env_disk
  /\ home_bin' = r.s.home_bin
  /\ proc' = IF r.result = "panic" \/ (op = "new" /\ r.result = "err")
             THEN "dead" ELSE "running"
  /\ last' = Call(op, arg, r.result, None)
  /\ UNCHANGED target_os

\* A call made while no download is in flight.
Commit(r, op, arg) == CommitState(r, op, arg) /\ UNCHANGED dl

\* A new process loads the Penv of the home directory.
Load ==
  LET r == Penv_new(State) IN
  /\ Commit(r, "new", <<>>)

Persist ==
  /\ proc = "running"
  /\ Commit(Ret(persist(State), "ok", None), "persist", <<>>)

InstallRelease ==
  /\ proc = "running"
  /\ Len(installed_releases) < MaxInstalled
  /\ \E req \in RepoOrVersionReq, fetched \in Fetches, io \in InstallIO :
       Commit(install_release(State, req, fetched, io[1], io[2]),
              "install_release", <<>>)

\* install_release, with the requirement and the release it selects recorded.
InstallSelected ==
  /\ proc = "running"
  /\ Len(installed_releases) < MaxInstalled
  /\ \E req \in RepoOrVersionReq, fetched \in Fetches, io \in InstallIO :
       Commit(install_release(State, req, fetched, io[1], io[2]), "install_release",
              <<req, IF req.kind = "Repo" THEN None ELSE selected_release(req, fetched)>>)

\* install_release for a version requirement and any platform, with the
\* requirement, the platform and the fetched index recorded.
InstallTarget ==
  /\ proc = "running"
  /\ Len(installed_releases) < MaxInstalled
  /\ \E req \in RepoOrVersionReq, target_arch \in Platforms, fetched \in Fetches,
        io \in InstallIO :
       /\ req.kind # "Repo"
       /\ Commit(install_release_target(State, req, target_arch, fetched, io[1], io[2]),
                 "install_release", <<req, target_arch, fetched>>)

\* install_release, with the requirement, the release it selects, the
\* outcome of the download and of the copy, and whether the tree of the
\* selected version was on disk without a record before the call.
InstallObserved ==
  /\ proc = "running"
  /\ Len(installed_releases) < MaxInstalled
  /\ \E req \in RepoOrVersionReq, fetched \in Fetches, io \in InstallIO :
       /\ req.kind # "Repo"
       /\ Commit(install_release(State, req, fetched, io[1], io[2]), "install_release",
                 <<req, selected_release(req, fetched), io,
                   /\ IsSome(selected_release(req, fetched))
                   /\ Unwrap(selected_release(req, fetched)).version \in versions_dir
                   /\ ~any_installed(installed_releases,
                                     Unwrap(selected_release(req, fetched)).version)>>)

\* The process is ended inside install_release, after Cache::install_release
\* has copied the release and before persist.
InstallKilled ==
  /\ proc = "running"
  /\ Len(installed_releases) < MaxInstalled
  /\ \E req \in RepoOrVersionReq, fetched \in Fetches :
       /\ IsSome(install_release_copied(State, req, fetched))
       /\ versions_dir' = Unwrap(install_release_copied(State, req, fetched)).versions_dir
       /\ installed_releases' =
            Unwrap(install_release_copied(State, req, fetched)).installed_releases
       /\ proc' = "dead"
       /\ last' = Call("install_release", <<req, selected_release(req, fetched)>>,
                       "killed", None)
       /\ UNCHANGED <<target_os, environments, active_environment, penv_toml, cache_toml,
                      checkouts_dir, env_disk, home_bin, dl>>

CacheDelete ==
  \E version \in RepoOrVersion, io_ok \in BOOLEAN :
    Commit(CacheCmd_Delete(State, version, io_ok), "cache_delete", <<version>>)

\* The reset command: its process holds a Cache and no Penv.
CacheReset ==
  /\ cache_toml' = CacheCmd_Reset(State).s.cache_toml
  /\ proc' = "dead"
  /\ last' = Call("cache_reset", <<>>, CacheCmd_Reset(State).result, None)
  /\ UNCHANGED <<target_os, installed_releases, environments, active_environment,
                 penv_toml, versions_dir, checkouts_dir, env_disk, home_bin, dl>>

\* The requirements environments are created with in the lifecycle.
EnvReqs == {ReqRange(1, MaxVersion), ReqLatest, ReqRepo("u1"), ReqRepo("u2")}

CreateEnvironmentWith(reqs, fails) ==
  /\ proc = "running"
  /\ Len(environments) < MaxEnvs
  /\ \E alias \in Aliases, req \in reqs, mode \in Modes, fail_at \in fails :
       Commit(create_environment(State, alias, req, mode[1], mode[2], fail_at, target_os),
              "create_environment", <<alias, req>>)

CreateEnvironment == CreateEnvironmentWith(EnvReqs, FailAt)

\* Creation on a host where the binaries start.
CreateEnvironmentPin == CreateEnvironmentWith(EnvReqs, {"none"})

\* Creation of binary environments on a host where the binaries start.
CreateEnvironmentBinary ==
  CreateEnvironmentWith({ReqRange(1, MaxVersion), ReqLatest}, {"none"})

DeleteEnvironment ==
  /\ proc = "running"
  /\ \E alias \in AllAliases :
       Commit(delete_environment(State, alias), "delete_environment", <<alias>>)

Activate ==
  /\ proc = "running"
  /\ \E alias \in AllAliases :
       Commit(activate(State, alias, target_os), "activate", <<alias>>)

Deactivate ==
  /\ proc = "running"
  /\ Commit(deactivate(State), "deactivate", <<>>)

Use ==
  \E alias \in AllAliases :
    Commit(UseCmd(State, alias, target_os), "use", <<alias>>)

Upgrade ==
  \E alias \in AllAliases :
    Commit(UpgradeCmd(State, alias, target_os), "upgrade", <<alias>>)

ReplaceVersion ==
  /\ proc = "running"
  /\ \E alias \in AllAliases, v \in Versions :
       Commit(replace_version(State, alias, v, target_os), "replace_version", <<alias>>)

\* The state a call leaves, and the record of the call with its value.
CommitRun(r, op, arg) ==
  /\ installed_releases' = r.s.installed_releases
  /\ environments' = r.s.environments
  /\ active_environment' = r.s.active_environment
  /\ penv_toml' = r.s.penv_toml
  /\ cache_toml' = r.s.cache_toml
  /\ versions_dir' = r.s.versions_dir
  /\ checkouts_dir' = r.s.checkouts_dir
  /\ env_disk' = r.s.env_disk
  /\ home_bin' = r.s.home_bin
  /\ proc' = IF r.result = "panic" THEN "dead" ELSE "running"
  /\ last' = Call(op, arg, r.result, r.ret)
  /\ UNCHANGED <<target_os, dl>>

\* The requirements initialize is followed for.
InitReqs == {ReqLatest, ReqRepo("u1")}

\* initialize on the environment create_environment builds for a
\* requirement: a checkout environment takes the phrase to import, a binary
\* environment generates one.
Initialize ==
  /\ proc = "running"
  /\ \E alias \in Aliases, req \in InitReqs, mode \in Modes,
        import_seed_phrase \in ImportPhrases, fail_at \in FailAt :
       LET best == find_best_match(installed_releases, req) IN
       /\ best.result = "ok"
       /\ IsSome(best.ret)
       /\ LET release == Unwrap(best.ret) IN
          IF release.type = "GitCheckout"
          THEN LET environment == CheckoutEnvironment(alias, mode[1], mode[2], release.url)
               IN CommitRun(CheckoutEnvironment_initialize_with_seed_phrase(
                              State, environment, import_seed_phrase, fail_at),
                            "initialize", <<environment, import_seed_phrase>>)
          ELSE LET environment == BinaryEnvironment(alias, mode[1], mode[2], req,
                                                    release.version)
               IN /\ import_seed_phrase = None
                  /\ CommitRun(BinaryEnvironment_initialize(State, environment, fail_at,
                                                            target_os),
                               "initialize", <<environment, None>>)

\* The requirements whose binary environments are wired directly.
LinkReqs == {ReqLatest, ReqRange(1, 1)}

\* The binary environment create_environment builds for a requirement.
BuiltBinary(alias, req, mode) ==
  LET best == find_best_match(installed_releases, req) IN
  IF best.result = "ok" /\ IsSome(best.ret) /\ Unwrap(best.ret).type = "Binary"
  THEN Some(BinaryEnvironment(alias, mode[1], mode[2], req, Unwrap(best.ret).version))
  ELSE None

\* create_symlinks on a binary environment.
CreateSymlinks ==
  /\ proc = "running"
  /\ \E alias \in Aliases, req \in LinkReqs, mode \in Modes :
       /\ IsSome(BuiltBinary(alias, req, mode))
       /\ Commit(create_symlinks(State, Unwrap(BuiltBinary(alias, req, mode)), target_os),
                 "create_symlinks", <<Unwrap(BuiltBinary(alias, req, mode))>>)

\* remove_symlinks on a binary environment.
RemoveSymlinks ==
  /\ proc = "running"
  /\ \E alias \in Aliases, req \in LinkReqs, mode \in Modes :
       /\ IsSome(BuiltBinary(alias, req, mode))
       /\ Commit(remove_symlinks(State, Unwrap(BuiltBinary(alias, req, mode))),
                 "remove_symlinks", <<Unwrap(BuiltBinary(alias, req, mode))>>)

\* Calls of the pure lookups on the Penv in memory.
Pure(op, arg, out) ==
  /\ proc = "running"
  /\ proc' = IF out.result = "panic" THEN "dead" ELSE "running"
  /\ last' = Call(op, arg, out.result, out.ret)
  /\ UNCHANGED <<target_os, installed_releases, environments, active_environment,
                 penv_toml, cache_toml, versions_dir, checkouts_dir, env_disk, home_bin,
                 dl>>

FindBestMatch ==
  \E req \in RepoOrVersionReq :
    Pure("find_best_match", <<req>>, find_best_match(installed_releases, req))

ListInstalled ==
  \E req \in RepoOrVersionReq :
    Pure("list_installed", <<req>>, list_installed(installed_releases, Some(req)))

SatisfiedByVersion ==
  \E i \in DOMAIN environments, version \in RepoOrVersion :
    Pure("satisfied_by_version", <<environments[i], version>>,
         satisfied_by_version(environments[i], version))

\* ------------------------------------------------------------ fetch_releases
\* A release as the remote index lists it: its tag parses as a version or
\* does not, and the rest.
RawRelease(tag_ok, release) == [tag_ok |-> tag_ok, release |-> release]
\* The entry of the index whose tag is no version.
BadTag == RawRelease(FALSE, Release(1, None, Platforms))
\* The remote index as it is served: releases with proper tags, and possibly
\* the entry with the bad tag among them.
RawIndexes ==
  {{RawRelease(TRUE, r) : r \in idx} \cup bad : idx \in RemoteIndexes, bad \in {{}, {BadTag}}}

\* A fetch that leaves out the releases it cannot convert.
fetch_releases_partial(raw_releases, net_ok) ==
  IF ~net_ok THEN Outcome("err", {})
  ELSE Outcome("ok", {r.release : r \in {x \in raw_releases : x.tag_ok}})

\* Downloader::fetch_releases: the request, then every raw release converted
\* and collected into one Result: the first conversion that fails is the
\* outcome of the call.
fetch_releases(raw_releases, net_ok) ==
  IF ~net_ok THEN Outcome("err", {})
  ELSE IF \E r \in raw_releases : ~r.tag_ok THEN Outcome("err", {})
  ELSE Outcome("ok", {r.release : r \in raw_releases})

\* Cache::list_available: the fetched releases that match the requirement,
\* each with whether its version is installed.
list_available(installed, required_version, fetched) ==
  IF fetched.result = "err" \/ fetched.ret = {} THEN Outcome("err", None)
  ELSE LET latest_version == MaxVersionOf({r.version : r \in fetched.ret})
           retained ==
             {r \in fetched.ret :
                required_version = None
                  \/ RepoOrVersionReq_matches(Unwrap(required_version), r.version,
                                              latest_version)}
       IN Outcome("ok", Some({<<r, get_installed_release(installed, SpecVersion(r.version)) # None>> :
                                r \in retained}))

\* install_release on the index the remote serves.
InstallFetched ==
  /\ proc = "running"
  /\ Len(installed_releases) < MaxInstalled
  /\ \E req \in RepoOrVersionReq, raw \in RawIndexes, net_ok \in BOOLEAN :
       Commit(install_release(State, req, fetch_releases(raw, net_ok), TRUE, TRUE),
              "install_release", <<req, raw>>)

ListAvailable ==
  \E req \in RepoOrVersionReq, raw \in RawIndexes, net_ok \in BOOLEAN :
    Pure("list_available", <<req, raw>>,
         list_available(installed_releases, Some(req), fetch_releases(raw, net_ok)))

\* --------------------------------------------------------------- downloader
\* The checksum sidecar of an archive: not published, published with the
\* archive's digest, published with another digest.
Sidecars == {"none", "match", "mismatch"}
\* The archives of a release, in the order of its asset list: the download
\* tasks are spawned, and their handles awaited, in this order.
AssetOrder == <<"pcli", "pclientd", "pd">>
\* The archive whose transfer breaks, if any.
Broken == BinaryNames \cup {"nothing"}

\* sha, sha_next, sha_broken: the sidecar tasks, the next sidecar handle to
\* await and the sidecar whose fetch breaks; shasum: the locals pcli_shasum,
\* pclientd_shasum and pd_shasum ("none" is Option::None).
NoDownload ==
  [pc |-> "idle", version |-> 0, sidecar |-> [b \in BinaryNames |-> "none"],
   broken |-> "nothing", task |-> [b \in BinaryNames |-> "unspawned"],
   next |-> 1, result |-> "none", errors |-> <<>>, error |-> None,
   sha |-> [b \in BinaryNames |-> "unspawned"], sha_next |-> 1,
   sha_broken |-> "nothing", shasum |-> [b \in BinaryNames |-> "none"]]

\* The published sidecars in the order of the asset list: shasum_urls, and
\* the handles of the tasks that fetch them.
shasum_urls(sidecar) == SelectSeq(AssetOrder, LAMBDA b : sidecar[b] # "none")

\* An await loop that forgets the digest it was handed.
record_shasum_dropped(shasum, b, contents) == shasum

\* `let shasum = hex::decode(&contents[..64])?; pd_shasum = Some(shasum);`
\* and the same for pcli and pclientd: the digest of the awaited sidecar is
\* stored in the local of its archive.
record_shasum(shasum, b, contents) == [shasum EXCEPT ![b] = contents]

\* "Then download archives": one task per archive is spawned, each with a
\* clone of its archive's local, which is not assigned again.
spawn_archives(d) ==
  [d EXCEPT !.pc = "archives", !.task = [b \in BinaryNames |-> "running"]]

\* A download that never compares digests.
download_file_unverified(expected_shasum, transfer_ok) ==
  IF ~transfer_ok THEN "failed" ELSE "done"

\* A download that rejects an archive without a sidecar.
download_file_strict(expected_shasum, transfer_ok) ==
  IF ~transfer_ok THEN "failed"
  ELSE IF expected_shasum # "match" THEN "mismatch"
  ELSE "done"

\* Downloader::download_file: the archive is streamed to a file and hashed;
\* the digest is compared only when a checksum was handed in, and a
\* difference is an error.  The spawned task turns an error into a panic.
download_file(expected_shasum, transfer_ok) ==
  IF ~transfer_ok THEN "failed"
  ELSE IF expected_shasum = "mismatch" THEN "mismatch"
  ELSE "done"

\* A step of the download: the Penv and the disk are left alone.
DlStep(d) ==
  /\ dl' = d
  /\ UNCHANGED <<target_os, proc, installed_releases, environments, active_environment,
                 penv_toml, cache_toml, versions_dir, checkouts_dir, env_disk, home_bin,
                 last>>

\* install_release reaches download_release for a version that is not
\* installed.  download_release first spawns one task per published sidecar;
\* with no sidecar published the await loop is empty and the archive tasks
\* are spawned at once.
StartDownload ==
  /\ proc = "running"
  /\ dl.pc = "idle"
  /\ Len(installed_releases) < MaxInstalled
  /\ \E v \in Versions, sidecar \in [BinaryNames -> Sidecars], broken \in Broken,
        sha_broken \in Broken :
       /\ ~any_installed(installed_releases, v)
       /\ sha_broken \in BinaryNames => sidecar[sha_broken] # "none"
       /\ LET d == [NoDownload EXCEPT
                      !.pc = "shasums", !.version = v, !.sidecar = sidecar,
                      !.broken = broken, !.sha_broken = sha_broken,
                      !.sha = [b \in BinaryNames |->
                                 IF sidecar[b] = "none" THEN "unspawned" ELSE "running"]] IN
          IF shasum_urls(sidecar) = <<>> THEN DlStep(spawn_archives(d)) ELSE DlStep(d)

\* A spawned sidecar task runs get_contents to its end; a fetch that fails
\* is a panic of the task (`expect`).
ShaTaskRun ==
  \E b \in BinaryNames :
    /\ dl.sha[b] = "running"
    /\ DlStep([dl EXCEPT !.sha[b] = IF dl.sha_broken = b THEN "failed" ELSE "done"])

\* "Await the shasums and set them": the next sidecar handle is awaited with
\* `?`, so a failed task ends download_release; otherwise its digest is
\* recorded, and after the last handle the archive tasks are spawned.
ShaJoin ==
  /\ dl.pc = "shasums"
  /\ LET b == shasum_urls(dl.sidecar)[dl.sha_next] IN
     /\ dl.sha[b] # "running"
     /\ IF dl.sha[b] # "done"
        THEN DlStep([dl EXCEPT !.pc = "returned", !.result = "err"])
        ELSE LET d == [dl EXCEPT !.shasum = record_shasum(@, b, dl.sidecar[b])] IN
             IF dl.sha_next = Len(shasum_urls(dl.sidecar))
             THEN DlStep(spawn_archives(d))
             ELSE DlStep([d EXCEPT !.sha_next = @ + 1])

\* A spawned task runs download_file to its end, whether or not the caller
\* still waits for it.
TaskRun ==
  \E b \in BinaryNames :
    /\ dl.task[b] = "running"
    /\ LET out == download_file(dl.shasum[b], dl.broken # b) IN
       DlStep([dl EXCEPT !.task[b] = out,
                         !.errors = IF out = "done" THEN @ ELSE Append(@, b)])

\* `for handle in handles { .. handle.await? .. }`: the next handle is
\* awaited; the JoinError of a failed task ends download_release at once.
Join ==
  /\ dl.pc = "archives"
  /\ LET b == AssetOrder[dl.next] IN
     /\ dl.task[b] # "running"
     /\ IF dl.task[b] # "done"
        THEN DlStep([dl EXCEPT !.pc = "returned", !.result = "err", !.error = Some(b)])
        ELSE IF dl.next = Len(AssetOrder)
        THEN DlStep([dl EXCEPT !.pc = "returned", !.result = "ok"])
        ELSE DlStep([dl EXCEPT !.next = @ + 1])

\* The rest of install_release once download_release has returned.
FinishInstall ==
  /\ proc = "running"
  /\ dl.pc = "returned"
  /\ \E install_ok \in BOOLEAN :
       CommitState(install_release(State, ReqRange(dl.version, dl.version),
                                   Outcome("ok", {Release(dl.version, Some("notes"), Platforms)}),
                                   dl.result = "ok", install_ok),
                   "install_release", <<>>)
  /\ dl' = NoDownload

NoCall == Call("init", <<>>, "ok", None)

\* The cache the environment lifecycle starts from: every version and one
\* repository installed.
InstalledAtStart ==
  [i \in 1..MaxVersion |-> InstalledBinaryRelease(i, Some("notes"))]
    \o <<CheckoutMetadata("u1")>>

Init ==
  /\ target_os \in TargetOS
  /\ proc = "running"
  /\ installed_releases = <<>>
  /\ environments = <<>>
  /\ active_environment = None
  /\ penv_toml = None
  /\ cache_toml = None
  /\ versions_dir = {}
  /\ checkouts_dir = {}
  /\ env_disk = [a \in Aliases |-> NoEnvDir]
  /\ home_bin = None
  /\ last = NoCall
  /\ dl = NoDownload

Next ==
  \/ Load
  \/ Persist
  \/ InstallRelease
  \/ CacheDelete

Spec == Init /\ [][Next]_vars

InitEnv ==
  /\ target_os \in TargetOS
  /\ proc = "running"
  /\ installed_releases = InstalledAtStart
  /\ environments = <<>>
  /\ active_environment = None
  /\ penv_toml = Some([repository_name |-> DefaultRepository, home_dir |-> HomeDir,
                        active_environment |-> None, cache |-> installed_releases,
                        environments |-> <<>>])
  /\ cache_toml = Some(installed_releases)
  /\ versions_dir = {installed_releases[i].version : i \in
                       {j \in DOMAIN installed_releases : installed_releases[j].type = "Binary"}}
  /\ checkouts_dir = {installed_releases[i].url : i \in
                       {j \in DOMAIN installed_releases : installed_releases[j].type = "GitCheckout"}}
  /\ env_disk = [a \in Aliases |-> NoEnvDir]
  /\ home_bin = None
  /\ last = NoCall
  /\ dl = NoDownload

NextEnv ==
  \/ Load
  \/ Persist
  \/ CreateEnvironment
  \/ DeleteEnvironment
  \/ Activate
  \/ Deactivate
  \/ Use
  \/ ReplaceVersion

SpecEnv == InitEnv /\ [][NextEnv]_vars

NextPin ==
  \/ CreateEnvironmentPin
  \/ CacheDelete

SpecPin == InitEnv /\ [][NextPin]_vars

\* The environments an index file written by hand can list: the repository's
\* own deserialisation test lists two environments under one alias.
IndexEnvironments ==
  {BinaryEnvironment(a, TRUE, FALSE, ReqRange(1, MaxVersion), v) :
     a \in Aliases, v \in Versions}

IndexFiles ==
  {[repository_name |-> DefaultRepository, home_dir |-> HomeDir,
    active_environment |-> None, cache |-> InstalledAtStart, environments |-> envs] :
     envs \in UNION {[1..n -> IndexEnvironments] : n \in 0..MaxEnvs}}

\* A home directory whose penv.toml is any such file; no process runs yet.
InitIndex ==
  /\ target_os \in TargetOS
  /\ proc = "dead"
  /\ installed_releases = <<>>
  /\ environments = <<>>
  /\ active_environment = None
  /\ penv_toml \in {Some(f) : f \in IndexFiles}
  /\ cache_toml = Some(InstalledAtStart)
  /\ versions_dir = Versions
  /\ checkouts_dir = {"u1"}
  /\ env_disk = [a \in Aliases |->
                   IF \E i \in DOMAIN Unwrap(penv_toml).environments :
                        Unwrap(penv_toml).environments[i].alias = a
                   THEN EmptyEnvDir ELSE NoEnvDir]
  /\ home_bin = None
  /\ last = NoCall
  /\ dl = NoDownload

NextIndex ==
  \/ Load
  \/ CreateEnvironmentPin
  \/ DeleteEnvironment
  \/ ReplaceVersion

SpecIndex == InitIndex /\ [][NextIndex]_vars

NextUpgrade ==
  \/ CreateEnvironmentPin
  \/ ReplaceVersion
  \/ Upgrade

SpecUpgrade == InitEnv /\ [][NextUpgrade]_vars

NextInstall ==
  \/ InstallSelected
  \/ Persist

SpecInstall == Init /\ [][NextInstall]_vars

NextFetch ==
  \/ InstallFetched
  \/ ListAvailable

SpecFetch == Init /\ [][NextFetch]_vars

NextInit ==
  \/ Load
  \/ Initialize
  \/ CacheDelete

SpecInit == InitEnv /\ [][NextInit]_vars

NextLinks ==
  \/ Load
  \/ Initialize
  \/ CreateSymlinks
  \/ RemoveSymlinks

SpecLinks == InitEnv /\ [][NextLinks]_vars

NextReplace ==
  \/ Load
  \/ CreateEnvironmentBinary
  \/ ReplaceVersion
  \/ CacheDelete

SpecReplace == InitEnv /\ [][NextReplace]_vars

NextTarget ==
  \/ Load
  \/ InstallTarget

SpecTarget == Init /\ [][NextTarget]_vars

NextCrash ==
  \/ Load
  \/ InstallObserved
  \/ InstallKilled

SpecCrash == Init /\ [][NextCrash]_vars

NextCache ==
  \/ Load
  \/ InstallRelease
  \/ CacheDelete
  \/ CacheReset

SpecCache == Init /\ [][NextCache]_vars

NextDl ==
  \/ StartDownload
  \/ ShaTaskRun
  \/ ShaJoin
  \/ TaskRun
  \/ Join
  \/ FinishInstall

SpecDl == Init /\ [][NextDl]_vars

\* The lookups run on every cache that holds each release at most once, and
\* on every environment an index file can hold (the repository's own
\* deserialisation test loads a Binary environment that requires Latest).
ReleaseRecords ==
  {InstalledBinaryRelease(v, Some("notes")) : v \in Versions}
    \cup {CheckoutMetadata(u) : u \in Urls}

InstalledLists ==
  {l \in UNION {[1..n -> ReleaseRecords] : n \in 0..MaxInstalled} :
     \A i, j \in DOMAIN l : l[i] = l[j] => i = j}

LoadedEnvironments ==
  {BinaryEnvironment("dev", TRUE, FALSE, req, v) :
     req \in VersionReqOrLatest, v \in Versions}
    \cup {CheckoutEnvironment("dev", TRUE, FALSE, u) : u \in Urls}

InitFn ==
  /\ target_os \in TargetOS
  /\ proc = "running"
  /\ installed_releases \in InstalledLists
  /\ environments \in {<<e>> : e \in LoadedEnvironments}
  /\ active_environment = None
  /\ penv_toml = Some([repository_name |-> DefaultRepository, home_dir |-> HomeDir,
                        active_environment |-> None, cache |-> installed_releases,
                        environments |-> environments])
  /\ cache_toml = Some(installed_releases)
  /\ versions_dir = {installed_releases[i].version : i \in
                       {j \in DOMAIN installed_releases : installed_releases[j].type = "Binary"}}
  /\ checkouts_dir = {installed_releases[i].url : i \in
                       {j \in DOMAIN installed_releases : installed_releases[j].type = "GitCheckout"}}
  /\ env_disk = [a \in Aliases |-> IF a = "dev" THEN EmptyEnvDir ELSE NoEnvDir]
  /\ home_bin = None
  /\ last = NoCall
  /\ dl = NoDownload

NextFn ==
  \/ FindBestMatch
  \/ ListInstalled
  \/ SatisfiedByVersion

SpecFn == InitFn /\ [][NextFn]_vars

\* ================================================================== claims
\* C1: in every state reachable from an empty cache by installs and cache
\* deletes, the installed-release list holds at most one Binary record per
\* exact version and at most one GitCheckout record per URL.
C1_UniqueRecords ==
  \A i, j \in DOMAIN installed_releases :
    (/\ installed_releases[i].type = installed_releases[j].type
     /\ installed_releases[i].version = installed_releases[j].version
     /\ installed_releases[i].url = installed_releases[j].url) => i = j

\* An install succeeded into a cache that then holds two Binary records and
\* the checkout of the second repository.
C1_Witness ==
  /\ last.op = "install_release"
  /\ last.result = "ok"
  /\ Len(installed_releases) = 3
  /\ \E i, j, k \in DOMAIN installed_releases :
       /\ installed_releases[i].type = "Binary"
       /\ installed_releases[j].type = "Binary"
       /\ i # j
       /\ installed_releases[k].type = "GitCheckout"
       /\ installed_releases[k].url \notin {"u1"}

\* An environment pins a cache entry: a Binary environment by its pinned
\* version, a Checkout environment by the URL of its checkout.
Pins(env, version) ==
  IF env.type = "BinaryEnvironment"
  THEN version.kind = "Version" /\ env.pinned_version = version.version
  ELSE version.kind = "Repo" /\ env.git_checkout = version.repo

\* C2: deleting a cache entry that an environment pins is rejected with a
\* Conflict error, and the installed-release list, the persisted cache index
\* and the trees on disk are unchanged.
C2_PinnedDeleteRejected ==
  [][(/\ last'.op = "cache_delete"
      /\ IsSome(penv_toml)
      /\ \E i \in DOMAIN Unwrap(penv_toml).environments :
           Pins(Unwrap(penv_toml).environments[i], last'.arg[1]))
     => (/\ last'.result = "conflict"
         /\ installed_releases' = Unwrap(penv_toml).cache
         /\ cache_toml' = cache_toml
         /\ versions_dir' = versions_dir
         /\ checkouts_dir' = checkouts_dir)]_vars

\* C3: after activate(alias) returns success, from no link or from the link
\* of a previously activated environment, <home>/bin is a symlink to
\* environments/<alias>/bin; activating dev and then dev2 leaves the link
\* pointing at dev2.
C3_ActivateLinks ==
  (last.op = "activate" /\ last.result = "ok") => home_bin = Some(last.arg[1])

\* C4: in every state reachable by create_environment, activate, deactivate,
\* delete_environment and replace_version, the <home>/bin link exists exactly
\* when there is an active environment, its target is the active
\* environment's bin directory (never stale or dangling), and after
\* deactivate no <home>/bin entry remains.
C4_LinkIffActive ==
  /\ IsSome(home_bin) <=> IsSome(active_environment)
  /\ IsSome(home_bin) =>
       /\ Unwrap(home_bin) = Unwrap(active_environment).alias
       /\ env_disk[Unwrap(home_bin)].exists
  /\ (last.op = "deactivate" /\ last.result = "ok") => home_bin = None

\* C5: delete_environment(alias) on the currently active environment is
\* rejected with an error, and the environment's directory, the Environments
\* list, the active-environment pointer and the persisted index are unchanged.
C5_DeleteActiveRejected ==
  [][(/\ last'.op = "delete_environment"
      /\ IsSome(active_environment)
      /\ Unwrap(active_environment).alias = last'.arg[1])
     => (/\ last'.result = "err"
         /\ env_disk' = env_disk
         /\ environments' = environments
         /\ active_environment' = active_environment
         /\ penv_toml' = penv_toml
         /\ cache_toml' = cache_toml)]_vars

\* The delete of the active environment has just been refused, with a second
\* environment in the list.
C5_Witness ==
  /\ last.op = "delete_environment"
  /\ last.result = "err"
  /\ IsSome(active_environment)
  /\ Unwrap(active_environment).alias = last.arg[1]
  /\ Len(environments) = 2
  /\ env_disk[last.arg[1]].exists

\* C11: create_environment with an alias that already exists returns an
\* error before any side effect: no directory is created, no subprocess is
\* run, and the Environments list, the cache and the persisted index are
\* unchanged.
C11_DuplicateAliasRejected ==
  [][(/\ last'.op = "create_environment"
      /\ \E i \in DOMAIN environments : environments[i].alias = last'.arg[1])
     => (/\ last'.result = "err"
         /\ env_disk' = env_disk
         /\ home_bin' = home_bin
         /\ environments' = environments
         /\ active_environment' = active_environment
         /\ installed_releases' = installed_releases
         /\ versions_dir' = versions_dir
         /\ checkouts_dir' = checkouts_dir
         /\ penv_toml' = penv_toml
         /\ cache_toml' = cache_toml)]_vars

\* A create with the alias of a listed environment, and a requirement an
\* installed release satisfies, has just been refused.
C11_Witness ==
  /\ last.op = "create_environment"
  /\ last.result = "err"
  /\ \E i \in DOMAIN environments : environments[i].alias = last.arg[1]
  /\ last.arg[2] = ReqRange(1, MaxVersion)
  /\ Len(environments) = 1

\* C12: in every state of the orchestrator, reached by create_environment,
\* delete_environment and replace_version or by loading an index file, no two
\* environments of the list share an alias.
C12_UniqueAliases ==
  \A i, j \in DOMAIN environments :
    environments[i].alias = environments[j].alias => i = j

\* C6: persist followed by load reproduces an equivalent orchestrator: the
\* load of a persisted index succeeds and yields the repository name, home
\* directory, installed-release list and Environments list that were
\* written, and the active environment is the list element whose alias is
\* the persisted active alias.
C6_RoundTrip ==
  (last.op = "new" /\ IsSome(penv_toml)) =>
    /\ last.result = "ok"
    /\ Serialize(State) = Unwrap(penv_toml)
    /\ IsSome(active_environment) =>
         \E i \in DOMAIN environments : environments[i] = Unwrap(active_environment)

IsBinary(r) == r.type = "Binary"
IsCheckout(r) == r.type = "GitCheckout"
InstalledVersions(list) == {list[i].version : i \in {j \in DOMAIN list : IsBinary(list[j])}}

\* What a requirement matches among the installed records, as the contract
\* states it: a range the Binary records in the range, Latest the Binary
\* record of the maximum installed version, a repository the checkouts of
\* that URL, and nothing across the two families.
RequirementSelects(list, req, r) ==
  IF req.kind = "Repo" THEN IsCheckout(r) /\ r.url = req.repo
  ELSE IF req.kind = "Latest"
  THEN IsBinary(r) /\ r.version = MaxVersionOf(InstalledVersions(list))
  ELSE IsBinary(r) /\ req.lo <= r.version /\ r.version <= req.hi

Selected(list, req) == SelectSeq(list, LAMBDA r : RequirementSelects(list, req, r))

\* C7: find_best_match(requirement) returns the installed Binary release of
\* the maximum version among those satisfying a version requirement, the
\* installed checkout of the URL for a repository requirement, and None when
\* no installed release satisfies the requirement.
C7_FindBestMatch ==
  last.op = "find_best_match" =>
    LET req == last.arg[1]
        sel == Selected(installed_releases, req)
    IN /\ last.result = "ok"
       /\ IF sel = <<>> THEN last.ret = None
          ELSE /\ IsSome(last.ret)
               /\ \E i \in DOMAIN sel : sel[i] = Unwrap(last.ret)
               /\ \A i \in DOMAIN sel : sel[i].version <= Unwrap(last.ret).version

\* C8: for every requirement and every installed set, list_installed(Some(req))
\* returns exactly the installed records the requirement matches (Latest
\* matching only the maximum version, the two families never mixing).
C8_ListInstalledExact ==
  last.op = "list_installed" =>
    /\ last.result = "ok"
    /\ last.ret = Selected(installed_releases, last.arg[1])

\* The value the 2x2 matrix gives for an environment and a specifier.
Matrix(env, version) ==
  IF env.type = "BinaryEnvironment"
  THEN /\ version.kind = "Version"
       /\ env.version_requirement.kind = "VersionReq"
       /\ VersionReq_matches(env.version_requirement, version.version)
  ELSE version.kind = "Repo" /\ version.repo = env.git_checkout

\* C9: whenever Environment::satisfied_by_version returns, it returns the
\* value of the 2x2 matrix: requirement.matches(version) for a Binary
\* environment and a version, false for Binary and a repository, false for
\* Checkout and a version, URL equality for Checkout and a repository.
C9_SatisfiedMatrix ==
  (last.op = "satisfied_by_version" /\ last.result = "ok") =>
    last.ret = Matrix(last.arg[1], last.arg[2])

\* C10: satisfied_by_version returns a boolean without panicking for every
\* environment kind (Binary requiring Latest, Binary requiring a range,
\* Checkout) and every specifier kind (version, repository).
C10_SatisfiedTotal ==
  last.op = "satisfied_by_version" =>
    /\ last.result = "ok"
    /\ last.ret \in BOOLEAN

\* The Penv in memory, both index files and every tree on disk are as before.
NothingChanged ==
  /\ environments' = environments /\ active_environment' = active_environment
  /\ installed_releases' = installed_releases
  /\ penv_toml' = penv_toml /\ cache_toml' = cache_toml
  /\ versions_dir' = versions_dir /\ checkouts_dir' = checkouts_dir
  /\ env_disk' = env_disk /\ home_bin' = home_bin

C14_PinsMaxAndLinks ==
  [][(/\ last'.op = "create_environment" /\ last'.result = "ok"
      /\ last'.arg[2].kind \in {"VersionReq", "Latest"})
     => LET sel == Selected(installed_releases, last'.arg[2])
            e == environments'[Len(environments')]
        IN /\ Len(environments') = Len(environments) + 1
           /\ e.type = "BinaryEnvironment" /\ e.alias = last'.arg[1]
           /\ sel # <<>>
           /\ e.pinned_version = MaxVersionOf(InstalledVersions(sel))
           /\ env_disk'[e.alias].exists
           /\ env_disk'[e.alias].bin["pcli"] = e.pinned_version
           /\ e.pinned_version \in versions_dir']_vars

\* C15: when initialize fails during create_environment (a symlink cannot be
\* wired or a subprocess exits non-zero) the call returns the error and
\* commits nothing: the environment is not added to the list, the active
\* pointer is unchanged and neither index file is rewritten.
C15_FailedInitCommitsNothing ==
  [][(/\ last'.op = "create_environment" /\ last'.result = "err"
      /\ ~any_alias(environments, last'.arg[1])
      /\ Selected(installed_releases, last'.arg[2]) # <<>>)
     => (/\ environments' = environments
         /\ active_environment' = active_environment
         /\ penv_toml' = penv_toml /\ cache_toml' = cache_toml)]_vars

\* A creation under a fresh alias, next to a registered and active
\* environment, failed after initialize had made the environment's tree.
C15_Witness ==
  /\ last.op = "create_environment" /\ last.result = "err"
  /\ ~any_alias(environments, last.arg[1])
  /\ last.arg[2] = ReqRange(1, MaxVersion)
  /\ env_disk[last.arg[1]].exists
  /\ Len(environments) = 1 /\ active_environment = Some(environments[1])

\* C16: Cache.delete removes the tree of the release first and its record
\* only when that removal succeeded: when removing the tree fails the call
\* returns an error and both the tree and the in-memory record are still there.
C16_DeleteFailureKeepsBoth ==
  [][(/\ last'.op = "cache_delete" /\ last'.result = "err"
      /\ Penv_new(State).result = "ok"
      /\ get_installed_release(Penv_new(State).s.installed_releases, last'.arg[1]) # None)
     => LET release == Unwrap(get_installed_release(Penv_new(State).s.installed_releases,
                                                    last'.arg[1]))
        IN /\ \E i \in DOMAIN installed_releases' : installed_releases'[i] = release
           /\ IF IsBinary(release) THEN release.version \in versions_dir'
              ELSE release.url \in checkouts_dir']_vars

\* C17: when the digest of any one archive differs from its published
\* sidecar, download_release fails as a whole and the enclosing install adds
\* no record to the cache and writes neither index file, whatever happened
\* to the other archives.
C17_MismatchAbortsInstall ==
  [][(/\ dl.pc = "returned" /\ last'.op = "install_release" /\ dl'.pc = "idle"
      /\ \E b \in BinaryNames : dl.sidecar[b] = "mismatch")
     => (/\ dl.result = "err" /\ last'.result = "err"
         /\ installed_releases' = installed_releases
         /\ versions_dir' = versions_dir
         /\ penv_toml' = penv_toml /\ cache_toml' = cache_toml)]_vars

\* An install ended in an error after a download in which the sidecars were
\* fetched, pd's archive did not match its sidecar and pcli's archive, which
\* matched, was joined.
C17_Witness ==
  /\ dl.pc = "returned" /\ dl.result = "err"
  /\ dl.sidecar["pd"] = "mismatch" /\ dl.sidecar["pcli"] = "match"
  /\ dl.task["pcli"] = "done" /\ dl.task["pd"] = "mismatch"
  /\ dl.error = Some("pd")
  /\ Len(installed_releases) = 1

\* C18: download_release joins every spawned task before it looks at any
\* result: when it returns, no task is still running (none was cancelled or
\* left unjoined because a sibling failed), and the error it returns is the
\* first one recorded.
C18_JoinsAllBeforeReturn ==
  dl.pc = "returned" =>
    /\ \A b \in BinaryNames : dl.task[b] # "running"
    /\ (dl.result = "err" /\ dl.errors # <<>>) => dl.error = Some(dl.errors[1])

\* C19: an archive without a published sidecar is downloaded unverified and
\* is no reason for download_release to fail: a task rejects its archive for
\* the checksum only when a sidecar was published and the digests differ, and
\* a download whose transfers work and whose published sidecars agree succeeds.
C19_MissingSidecarSkipped ==
  /\ \A b \in BinaryNames : dl.task[b] = "mismatch" => dl.sidecar[b] = "mismatch"
  /\ (/\ dl.pc = "returned"
      /\ dl.broken = "nothing"
      /\ \A b \in BinaryNames : dl.sidecar[b] = "none")
     => dl.result = "ok"

\* A download of three archives, none with a sidecar, returned Ok.
C19_Witness ==
  /\ dl.pc = "returned" /\ dl.result = "ok"
  /\ \A b \in BinaryNames : dl.sidecar[b] = "none" /\ dl.task[b] = "done"

\* C20: replace_version(alias, new_version) changes only the pinned_version
\* of the named Binary environment: its other fields, its position in the
\* ordered Environments list, every other environment and the cache's
\* installed-release list are unchanged.
C20_ReplaceVersionFrame ==
  [][(last'.op = "replace_version" /\ last'.result = "ok")
     => (/\ Len(environments') = Len(environments)
         /\ \A i \in DOMAIN environments :
              IF environments[i].alias = last'.arg[1]
              THEN environments'[i] =
                     [environments[i] EXCEPT !.pinned_version = environments'[i].pinned_version]
              ELSE environments'[i] = environments[i]
         /\ installed_releases' = installed_releases)]_vars

\* C21: in every state reached by create_environment, activate, deactivate,
\* replace_version and delete_environment the active-environment reference,
\* when set, equals the element of the Environments list with its alias; after
\* replace_version on the active environment it carries the new pinned version.
C21_ActiveIsListed ==
  IsSome(active_environment) =>
    /\ \E i \in DOMAIN environments : environments[i].alias = Unwrap(active_environment).alias
    /\ \A i \in DOMAIN environments :
         environments[i].alias = Unwrap(active_environment).alias
           => environments[i] = Unwrap(active_environment)

\* replace_version has just changed the pinned version of the active
\* environment, and the active reference carries the new version.
C21_Witness ==
  /\ last.op = "replace_version" /\ last.result = "ok"
  /\ IsSome(active_environment)
  /\ Unwrap(active_environment).alias = last.arg[1]
  /\ Unwrap(active_environment).pinned_version = 1
  /\ Len(environments) = 2

\* C22: upgrading a Checkout environment, by replace_version or by the
\* manage-upgrade command, gives an error returned as a result value, not a
\* crash, and leaves the Environments list, the active pointer and the
\* persisted index unchanged.
C22_CheckoutUpgradeIsError ==
  [][(/\ last'.op \in {"replace_version", "upgrade"}
      /\ \E i \in DOMAIN environments :
           /\ environments[i].alias = last'.arg[1]
           /\ environments[i].type = "CheckoutEnvironment")
     => (/\ last'.result = "err"
         /\ environments' = environments
         /\ active_environment' = active_environment
         /\ penv_toml' = penv_toml)]_vars

\* The release an install selects is already recorded in the cache: the
\* repository's URL, or the exact version of the selected Binary release.
AlreadyInstalled(req, selected) ==
  IF req.kind = "Repo"
  THEN \E i \in DOMAIN installed_releases :
         IsCheckout(installed_releases[i]) /\ installed_releases[i].url = req.repo
  ELSE /\ selected # None
       /\ \E i \in DOMAIN installed_releases :
            /\ IsBinary(installed_releases[i])
            /\ installed_releases[i].version = Unwrap(selected).version

\* C23: installing a release that is already installed is reported as an
\* error (a Conflict) and leaves the cache unchanged, for a Binary release
\* whose exact version is recorded and for a repository whose URL is recorded.
C23_AlreadyInstalledConflict ==
  [][(/\ last'.op = "install_release"
      /\ AlreadyInstalled(last'.arg[1], last'.arg[2]))
     => (/\ last'.result = "err"
         /\ installed_releases' = installed_releases
         /\ cache_toml' = cache_toml
         /\ versions_dir' = versions_dir /\ checkouts_dir' = checkouts_dir)]_vars

\* The Binary records of a version in a list of installed releases.
BinaryRecordsOf(list, v) == {i \in DOMAIN list : IsBinary(list[i]) /\ list[i].version = v}

\* C24: a successful binary install into a home with no record for the chosen
\* version adds exactly one Binary record for that version, with exactly three
\* assets, one per managed binary, and the persisted cache index lists it.
C24_InstallAddsOneRecord ==
  [][(/\ last'.op = "install_release" /\ last'.result = "ok"
      /\ last'.arg[1].kind # "Repo" /\ last'.arg[2] # None
      /\ BinaryRecordsOf(installed_releases, Unwrap(last'.arg[2]).version) = {})
     => LET v == Unwrap(last'.arg[2]).version
            n == Len(installed_releases')
        IN /\ n = Len(installed_releases) + 1
           /\ SubSeq(installed_releases', 1, n - 1) = installed_releases
           /\ BinaryRecordsOf(installed_releases', v) = {n}
           /\ Len(installed_releases'[n].assets) = Cardinality(BinaryNames)
           /\ {installed_releases'[n].assets[k] : k \in 1..Len(installed_releases'[n].assets)}
                = BinaryNames
           /\ v \in versions_dir'
           /\ cache_toml' = Some(installed_releases')]_vars

\* A fresh home after one successful install of the selected version.
C24_Witness ==
  /\ last.op = "install_release" /\ last.result = "ok"
  /\ last.arg[1].kind = "VersionReq" /\ last.arg[2] # None
  /\ Len(installed_releases) = 1
  /\ IsBinary(installed_releases[1])
  /\ installed_releases[1].version = Unwrap(last.arg[2]).version
  /\ cache_toml = Some(installed_releases)

\* The index the last call was served holds a release with an unparsable tag.
ServedBadTag(call) == \E r \in call.arg[2] : ~r.tag_ok

\* C25 as stated: when any release of the remote index has an unparsable
\* tag, install and list_available fail for every requirement.
C25_BadTagFailsEveryRequirement ==
  (/\ last.op \in {"install_release", "list_available"}
   /\ ServedBadTag(last))
  => last.result = "err"

\* C25: fetch_releases is all-or-nothing: when any release of the remote
\* index has an unparsable tag it returns an error and no partial list, and
\* list_available (for every requirement) and install (for every version
\* requirement: a range or Latest) fail and leave the cache as it was.  An
\* install of a repository does not fetch the index.
C25_BadTagFailsFetch ==
  [][(/\ last'.op \in {"install_release", "list_available"}
      /\ ServedBadTag(last')
      /\ (last'.op = "install_release" => last'.arg[1].kind # "Repo"))
     => (/\ fetch_releases(last'.arg[2], TRUE) = Outcome("err", {})
         /\ last'.result = "err" /\ last'.ret = None
         /\ installed_releases' = installed_releases
         /\ cache_toml' = cache_toml /\ versions_dir' = versions_dir)]_vars

\* An install of Latest failed on an index that holds, beside the release
\* with the bad tag, an installable release of the newest version.
C25_Witness ==
  /\ last.op = "install_release" /\ last.result = "err"
  /\ last.arg[1] = ReqLatest
  /\ ServedBadTag(last)
  /\ RawRelease(TRUE, Release(MaxVersion, Some("notes"), Platforms)) \in last.arg[2]
  /\ installed_releases = <<>>

\* The steps of initialize for an environment, in the order of the protocol.
StepOrder(env) ==
  <<"dirs", "wire", "pcli", "pclientd">> \o (IF env.client_only THEN <<>> ELSE <<"pd">>)

IsPrefix(a, b) == Len(a) <= Len(b) /\ \A i \in 1..Len(a) : a[i] = b[i]

\* The bin entries initialize wires for an environment are all present.
Wired(disk, env) ==
  \A i \in DOMAIN ManagedBinaries(env) : disk[env.alias].bin[ManagedBinaries(env)[i]] # 0

\* The steps a run began are the first steps of the order; a run that
\* succeeds began them all; every subprocess belongs to a step begun and
\* pclientd reads the phrase of the pcli step; what the directory and wiring
\* steps made is still there after a later step failed.
InitializeOrdered(before, call, after) ==
  LET env == call.arg[1]
      run == call.ret
      began(bin) == \E i \in DOMAIN run.steps : run.steps[i] = bin
  IN /\ IsPrefix(run.steps, StepOrder(env))
     /\ Len(run.steps) >= 2
     /\ call.result = "ok" => run.steps = StepOrder(env)
     /\ \A i \in DOMAIN run.spawns :
          /\ began(IF run.spawns[i].args[3] = "view" THEN "pd" ELSE run.spawns[i].bin)
          /\ run.spawns[i].bin = "pclientd" =>
               /\ i = 2
               /\ run.spawns[1].bin = "pcli"
               /\ run.spawns[i].stdin =
                    Some(IF IsSome(call.arg[2]) THEN Unwrap(call.arg[2])
                         ELSE GeneratedPhrase)
     /\ after[env.alias].exists
     /\ \A b \in BinaryNames : before[env.alias].bin[b] # 0 => after[env.alias].bin[b] # 0
     /\ (Len(run.steps) > 2 /\ (env.type = "CheckoutEnvironment" \/ target_os = "macos"))
          => Wired(after, env)

\* C26: initialize runs its steps in one order (directories, wiring, pcli
\* init, pclientd init with the phrase of the pcli step, pd's network init
\* only for a node); after a failing step no later step runs, what the
\* earlier steps made stays on disk, and the call returns the error.
C26_InitializeProtocol ==
  [][last'.op = "initialize"
       => /\ InitializeOrdered(env_disk, last', env_disk')
          /\ last'.result \in {"ok", "err"}]_vars

\* C27: for an environment with a node, initialize hands pd's network init
\* every input its mode reads (join: moniker, external address, join URL;
\* generate: external address and the allocation address queried from pcli),
\* so the node step never aborts on a missing input.
C27_NodeInputsSupplied ==
  [][(/\ last'.op = "initialize"
      /\ ~last'.arg[1].client_only
      /\ \E i \in DOMAIN last'.ret.steps : last'.ret.steps[i] = "pd")
     => last'.result # "panic"]_vars

\* The phrases of a call of initialize: the generated one and the imported.
PhrasesOf(call) ==
  {GeneratedPhrase} \cup (IF IsSome(call.arg[2]) THEN {Unwrap(call.arg[2])} ELSE {})

C29_CreateSymlinksIdempotent ==
  (last.op = "create_symlinks" /\ last.result = "ok")
    => LET env == last.arg[1]
           second == create_symlinks(State, env, target_os)
       IN /\ second.result = "ok"
          /\ second.s = State
          /\ env.pinned_version \in second.s.versions_dir
          /\ \A i \in DOMAIN ManagedBinaries(env) :
               second.s.env_disk[env.alias].bin[ManagedBinaries(env)[i]]
                 = env.pinned_version

\* The bin entries of a binary environment are all symlinks to the cache
\* copy of version v, which exists.
LinksResolveTo(s_versions, disk, env, v) ==
  /\ v \in s_versions
  /\ \A i \in DOMAIN ManagedBinaries(env) : disk[env.alias].bin[ManagedBinaries(env)[i]] = v

\* C30: a replace_version that succeeds leaves every managed binary's
\* symlink resolving to the cache entry of the new pinned version; and when
\* a replace_version of a binary environment has returned, with success or
\* with an error, the pinned version written to penv.toml is the version
\* the symlinks resolve to.
C30_LinksFollowPinnedVersion ==
  [][(/\ last'.op = "replace_version"
      /\ \E i \in DOMAIN environments :
           /\ environments[i].alias = last'.arg[1]
           /\ environments[i].type = "BinaryEnvironment")
     => LET persisted == Unwrap(penv_toml').environments
        IN \A i \in DOMAIN persisted :
             persisted[i].alias = last'.arg[1]
               => /\ LinksResolveTo(versions_dir', env_disk', persisted[i],
                                    persisted[i].pinned_version)
                  /\ last'.result = "ok" =>
                       \E j \in DOMAIN environments' :
                         /\ environments'[j].alias = last'.arg[1]
                         /\ LinksResolveTo(versions_dir', env_disk', environments'[j],
                                           environments'[j].pinned_version)]_vars

\* C31: when the process is ended after Cache::install_release has copied
\* a release and before persist, the load that follows, when it succeeds,
\* finds no record of that version while its tree is on disk; and an install that selects a
\* version whose tree is on disk without a record, and whose download and
\* copy work, succeeds and leaves exactly one record of that version, in
\* memory and in cache.toml.
C31_KilledInstallRecovers ==
  [][/\ (last.result = "killed" /\ last'.op = "new" /\ last'.result = "ok")
          => /\ BinaryRecordsOf(installed_releases', Unwrap(last.arg[2]).version) = {}
             /\ Unwrap(last.arg[2]).version \in versions_dir'
     /\ (/\ last'.op = "install_release"
         /\ last'.result # "killed"
         /\ last'.arg[4]
         /\ last'.arg[3] = <<TRUE, TRUE>>
         /\ BinaryRecordsOf(installed_releases, Unwrap(last'.arg[2]).version) = {})
          => /\ last'.result = "ok"
             /\ Cardinality(BinaryRecordsOf(installed_releases',
                                            Unwrap(last'.arg[2]).version)) = 1
             /\ cache_toml' = Some(installed_releases')
             /\ Unwrap(last'.arg[2]).version \in versions_dir']_vars

\* An install that succeeded on a version whose tree a killed install left.
C31_Witness ==
  /\ last.op = "install_release"
  /\ last.result = "ok"
  /\ Len(last.arg) = 4
  /\ last.arg[4]
  /\ Cardinality(BinaryRecordsOf(installed_releases, Unwrap(last.arg[2]).version)) = 1

\* C32: after every completed command the installed-release list written in
\* penv.toml is the list written in cache.toml, and a load that follows a
\* successful cache delete does not list the deleted release.
C32_IndexFilesAgree ==
  [][/\ (last'.result = "ok" /\ IsSome(penv_toml'))
          => cache_toml' = Some(Unwrap(penv_toml').cache)
     /\ (/\ last.op = "cache_delete"
         /\ last.result = "ok"
         /\ last'.op = "new"
         /\ last'.result = "ok")
          => get_installed_release(installed_releases', last.arg[1]) = None]_vars

\* C33: in the Penv of a running process every binary environment's pinned
\* version is the version of a Binary record of the cache, and every
\* checkout environment's URL is the URL of a GitCheckout record.
C33_EnvironmentsReferInstalled ==
  proc = "running" =>
    \A i \in DOMAIN environments :
      IF environments[i].type = "BinaryEnvironment"
      THEN BinaryRecordsOf(installed_releases, environments[i].pinned_version) # {}
      ELSE \E j \in DOMAIN installed_releases :
             /\ installed_releases[j].type = "GitCheckout"
             /\ installed_releases[j].url = environments[i].git_checkout

\* C34: cache delete of an installed version that no environment of the
\* home is pinned to is not refused, whatever the environments' version
\* requirements are (a range the version satisfies, or Latest): it does not
\* end in a conflict or a panic, and when it succeeds the record is gone.
C34_DeleteRefusedOnlyWhenPinned ==
  [][(/\ last'.op = "cache_delete"
      /\ last'.arg[1].kind = "Version"
      /\ IsSome(penv_toml)
      /\ BinaryRecordsOf(Unwrap(penv_toml).cache, last'.arg[1].version) # {}
      /\ \A i \in DOMAIN Unwrap(penv_toml).environments :
           LET env == Unwrap(penv_toml).environments[i] IN
           env.type = "BinaryEnvironment" => env.pinned_version # last'.arg[1].version)
     => /\ last'.result \in {"ok", "err"}
        /\ last'.result = "ok"
             => BinaryRecordsOf(installed_releases', last'.arg[1].version) = {}]_vars

\* C35: in download_release every sidecar task has completed and its digest
\* has been recorded before any archive task is spawned: in every state in
\* which an archive task exists, no sidecar task is running or failed and
\* each local holds the digest of its archive's published sidecar; so an
\* archive whose sidecar is published is accepted only when its digest
\* equals the sidecar's.
C35_ShasumsBeforeArchives ==
  /\ (\E a \in BinaryNames : dl.task[a] # "unspawned")
       => \A b \in BinaryNames :
            /\ dl.sha[b] = (IF dl.sidecar[b] = "none" THEN "unspawned" ELSE "done")
            /\ dl.shasum[b] = dl.sidecar[b]
  /\ \A b \in BinaryNames :
       (dl.task[b] = "done" /\ dl.sidecar[b] # "none") => dl.sidecar[b] = "match"

\* pd's sidecar task finished last, after pcli's was awaited; pd's archive
\* was then rejected against its sidecar while pcli's was accepted against
\* its own.
C35_Witness ==
  /\ dl.pc = "archives"
  /\ dl.sidecar["pcli"] = "match" /\ dl.sidecar["pd"] = "mismatch"
  /\ dl.sha["pcli"] = "done" /\ dl.sha["pd"] = "done"
  /\ dl.task["pcli"] = "done" /\ dl.task["pd"] = "mismatch"

\* C36: the use command with an alias that names no environment of the
\* persisted index fails and leaves the activation unchanged: the active
\* environment in memory and in penv.toml is the one that was persisted
\* before, and <home>/bin points where it pointed.
C36_UseUnknownAliasKeepsActivation ==
  [][(/\ last'.op = "use"
      /\ IsSome(penv_toml)
      /\ \A i \in DOMAIN Unwrap(penv_toml).environments :
           Unwrap(penv_toml).environments[i].alias # last'.arg[1])
     => (/\ last'.result = "err"
         /\ active_environment' = Unwrap(penv_toml).active_environment
         /\ penv_toml' = penv_toml
         /\ home_bin' = home_bin)]_vars

\* The fetched releases that match the requirement of the call (Latest
\* matching only the greatest fetched version) and have an asset for the
\* platform the call asks for.
Qualifying(req, target_arch, fetched) ==
  IF fetched.result # "ok" THEN {}
  ELSE {r \in fetched.ret :
          /\ target_arch \in r.archs
          /\ IF req.kind = "Latest"
             THEN \A q \in fetched.ret : q.version <= r.version
             ELSE req.lo <= r.version /\ r.version <= req.hi}

\* C37: install_release with a version requirement installs nothing but the
\* release of the greatest version among the fetched releases that match the
\* requirement and have an asset for the requested platform: when none
\* qualifies the cache and the versions tree are unchanged, otherwise the
\* only record that can be added is that release's, and a call that returns
\* Ok leaves that version installed.
C37_InstallsGreatestQualifying ==
  [][(last'.op = "install_release" /\ Len(last'.arg) = 3)
     => LET qualifying == Qualifying(last'.arg[1], last'.arg[2], last'.arg[3]) IN
        IF qualifying = {}
        THEN /\ last'.result # "ok"
             /\ installed_releases' = installed_releases
             /\ versions_dir' = versions_dir
        ELSE LET best == CHOOSE r \in qualifying : \A q \in qualifying : q.version <= r.version IN
             /\ installed_releases' \in
                  {installed_releases,
                   Append(installed_releases, InstalledBinaryRelease(best.version, best.body))}
             /\ versions_dir' \subseteq versions_dir \cup {best.version}
             /\ last'.result = "ok" => BinaryRecordsOf(installed_releases', best.version) # {}]_vars

====
